---- MODULE Spec2Model ----
\* Verification model of the social application: the repository layer
\* (PrismaPostRepository: create, toggleLike, createComment, getFeed;
\* PrismaUserRepository: toggleFollow), the FollowUserUseCase guard, the
\* pagination helper createPaginatedResult, the in-memory rate limiter with
\* checkRateLimit and its sweep, the server actions of post.action.ts
\* (createPost, toggleLike, createComment, deletePost), getUserLikedPosts, the
\* sign-up route, the notifications handler and the error normalizer
\* handleError.  The relational store is modelled as bags of rows;
\* every asynchronous call is split at its awaits, so calls interleave exactly
\* where the code suspends.  Pure functions are applied to inputs drawn from
\* bounded sets; the rate limiter runs against a clock that ticks between calls.
EXTENDS Bags, FiniteSets, Integers, Naturals, Sequences, TLC

\* ---------------------------------------------------------------- bounds
MaxCalls == 2        \* repository calls in flight at the same time
MaxPosts == 1        \* posts ever created
MaxComments == 3     \* comments ever created
MaxItems == 4        \* rows handed to createPaginatedResult
MaxLimit == 2        \* largest page size requested
MaxStamp == 2        \* distinct creation times of the posts of a feed
MaxTime == 4         \* the clock stops here
MaxRequests == 2     \* largest maxRequests of a rate-limit policy
MaxWindow == 2       \* largest windowMs of a rate-limit policy
MaxDenied == 2       \* calls made in one window beyond maxRequests
MaxNotifications == 3  \* notifications the server actions ever leave in the store
MaxIssues == 2       \* issues of a ZodError
MaxPad == 2          \* whitespace characters before and after the text of a post's content
MaxUsers == 2        \* User rows sign-up creates

Users == {"u1", "u2"}
PostIds == 1..MaxPosts
NoUser == "none"
NoPost == 0


VARIABLES
  posts,          \* Post table: post id -> authorId, NoUser when the row does not exist
  likes,          \* Like table: rows [id, userId, postId]
  follows,        \* Follows table: rows [followerId, followingId]
  comments,       \* Comment table: rows [id, postId, authorId]
  notifications,  \* Notification table: rows [id, type, userId, creatorId, postId, read]
  calls,          \* bag of repository calls suspended at an await
  last,           \* outcome of the call that completed most recently
  lastLiked,      \* per (userId, postId): liked flag of the toggleLike that committed last
  lastFollowing,  \* per (followerId, followingId): following flag of the toggleFollow that committed last
  pairMon,        \* observer of two consecutive toggleLike calls of one (user, post) pair
  items,          \* createPaginatedResult: the rows passed in, each [id]
  limit,          \* createPaginatedResult / getFeed: the page size
  result,         \* createPaginatedResult: the PaginatedResult returned, NoResult before the call
  feedPosts,      \* getFeed: the Post rows of the feed, post id -> createdAt
  cursor,         \* feed traversal: the cursor of the next getFeed call, NoCursor for the first
  seen,           \* feed traversal: ids of the posts returned so far, in the order returned
  pageLens,       \* feed traversal: the number of posts of each page returned so far
  feedDone,       \* feed traversal: a page with hasNextPage = false was returned
  now,            \* Date.now()
  storage,        \* InMemoryRateLimiter.storage: identifier -> {count, resetAt}, NoEntry when absent
  maxRequests,    \* the policy's max
  windowMs,       \* the policy's windowMs
  limited,        \* what the most recent limit call returned, and for which identifier
  checked,        \* how the most recent checkRateLimit call ended
  window,         \* observer, per identifier: the window its calls fall in, counted from the clock alone
  unswept,        \* observer: the storage and the result of a limiter given the same calls and never swept
  actionCalls,    \* bag of server-action calls (post.action.ts) suspended at an await
  acted,          \* what the server action that ended most recently returned
  thrown,         \* handleError: the value it is handed
  envelope,       \* handleError: the ErrorResponse it returned, NoEnvelope before the call
  likedRows,      \* getUserLikedPosts: the user's Like rows, like id -> [postId, createdAt]
  users,          \* User table: rows [email, username]
  signUps,        \* bag of sign-up requests suspended at an await
  responded,      \* the Response the sign-up request that ended most recently returned
  inbox,          \* Notification rows as the notifications API sees them: id -> [userId, read]
  fetches,        \* bag of GET notifications requests suspended at an await
  served          \* what the GET notifications request that ended most recently answered

storeVars == <<posts, likes, follows, comments, notifications, calls, last, lastLiked, lastFollowing, pairMon>>

pageVars == <<items, limit, result>>

feedVars == <<feedPosts, cursor, seen, pageLens, feedDone>>

limiterVars == <<now, storage, maxRequests, windowMs, limited, checked, window, unswept>>

actionVars == <<actionCalls, acted>>

errorVars == <<thrown, envelope>>

\* everything the repository operations leave alone
likedVars == <<likedRows>>

signUpVars == <<users, signUps, responded>>

notifVars == <<inbox, fetches, served>>

moreVars == <<likedVars, signUpVars, notifVars>>

auxVars == <<pageVars, feedVars, limiterVars, actionVars, errorVars, moreVars>>

vars == <<storeVars, auxVars>>

\* ---------------------------------------------------------------- errors
NoError == [class |-> "none", message |-> "", statusCode |-> 0, code |-> "none"]

\* new Error(message): a plain JavaScript error
PlainError(message) == [class |-> "Error", message |-> message, statusCode |-> 0, code |-> "none"]

\* Prisma's known request errors (P2002 unique constraint, P2025 record not found)
PrismaError(code) == [class |-> "PrismaClientKnownRequestError", message |-> code, statusCode |-> 0, code |-> "none"]

\* the store is unreachable or the statement fails for a reason outside the program
StoreFailure == PlainError("store failure")

NotFoundError(resource) == [class |-> "NotFoundError", message |-> resource \o " not found", statusCode |-> 404, code |-> "NOT_FOUND"]

AppErrorClasses == {"AppError", "NotFoundError", "UnauthorizedError", "ForbiddenError", "ValidationError",
                    "RateLimitError", "ConflictError", "InternalServerError", "BadRequestError"}

isAppError(error) == error.class \in AppErrorClasses

\* error instanceof Error: the application's errors, ZodError and the built-in
\* and library error classes; anything else thrown (a string, null, undefined,
\* a plain object) is not an Error
isError(error) ==
  error.class \in AppErrorClasses \cup {"Error", "TypeError", "PrismaClientKnownRequestError", "ZodError"}

\* new ZodError(issues): each issue is given by its message
ZodError(issues) ==
  [class |-> "ZodError", message |-> "zod issues", statusCode |-> 0, code |-> "none", issues |-> issues]

\* Object.values(formattedErrors)[0]?.[0] || "Validation failed": the message of
\* the first issue, unless there is none or it is empty
FirstError(error) ==
  IF Len(error.issues) = 0 \/ error.issues[1] = "" THEN "Validation failed" ELSE error.issues[1]

\* a normalizer that hands an unexpected error's own message to the client
handleErrorLeakingMessage(error) ==
  IF isAppError(error)
    THEN [success |-> FALSE, error |-> error.message, code |-> error.code, statusCode |-> error.statusCode]
  ELSE IF error.class = "ZodError"
    THEN [success |-> FALSE, error |-> FirstError(error), code |-> "VALIDATION_ERROR", statusCode |-> 400]
  ELSE IF isError(error)
    THEN [success |-> FALSE, error |-> error.message, code |-> "INTERNAL_SERVER_ERROR", statusCode |-> 500]
  ELSE [success |-> FALSE, error |-> "An unknown error occurred. Please try again later.",
        code |-> "UNKNOWN_ERROR", statusCode |-> 500]

handleError(error) ==
  IF isAppError(error)
    THEN [success |-> FALSE, error |-> error.message, code |-> error.code, statusCode |-> error.statusCode]
  ELSE IF error.class = "ZodError"
    THEN [success |-> FALSE, error |-> FirstError(error), code |-> "VALIDATION_ERROR", statusCode |-> 400]
  ELSE IF isError(error)
    THEN [success |-> FALSE, error |-> "An unexpected error occurred. Please try again later.",
          code |-> "INTERNAL_SERVER_ERROR", statusCode |-> 500]
  ELSE [success |-> FALSE, error |-> "An unknown error occurred. Please try again later.",
        code |-> "UNKNOWN_ERROR", statusCode |-> 500]

\* ---------------------------------------------------------------- store
\* Row ids are generated and opaque to the operations modelled here, so a table
\* is the bag of its rows' contents: two rows that differ only in their id are
\* two copies of one element.
Store == [likes |-> likes, follows |-> follows, comments |-> comments, notifications |-> notifications]

Matches(row, where) == \A field \in DOMAIN where : row[field] = where[field]

\* the rows of a table that a where clause selects, as a bag
RowsWhere(table, where) == [r \in {x \in BagToSet(table) : Matches(x, where)} |-> table[r]]

CountWhere(table, where) == BagCardinality(RowsWhere(table, where))

Insert(table, row) == table (+) SetToBag({row})

LikeKey(userId, postId) == [userId |-> userId, postId |-> postId]

FollowKey(followerId, followingId) == [followerId |-> followerId, followingId |-> followingId]

\* the writes a transaction batches
LikeCreate(userId, postId) == [kind |-> "like.create", userId |-> userId, postId |-> postId]
LikeDelete(userId, postId) == [kind |-> "like.delete", userId |-> userId, postId |-> postId]
FollowsCreate(followerId, followingId) == [kind |-> "follows.create", followerId |-> followerId, followingId |-> followingId]
FollowsDelete(followerId, followingId) == [kind |-> "follows.delete", followerId |-> followerId, followingId |-> followingId]
CommentCreate(postId, authorId) == [kind |-> "comment.create", postId |-> postId, authorId |-> authorId]
NotificationCreate(type, userId, creatorId, postId) ==
  [kind |-> "notification.create", type |-> type, userId |-> userId, creatorId |-> creatorId, postId |-> postId]
NotificationDeleteMany(where) == [kind |-> "notification.deleteMany", where |-> where]

Applied(s) == [err |-> NoError, s |-> s]
Rejected(error, s) == [err |-> error, s |-> s]

\* a create on a table with a unique key: P2002 when a row with the key exists
UniqueViolation(table, key) == CountWhere(table, key) > 0

\* one write against the store: the new store, or the constraint it violates
ApplyWrite(s, w) ==
  CASE w.kind = "like.create" ->
         IF UniqueViolation(s.likes, LikeKey(w.userId, w.postId))
           THEN Rejected(PrismaError("P2002"), s)
           ELSE Applied([s EXCEPT !.likes = Insert(@, LikeKey(w.userId, w.postId))])
    [] w.kind = "like.delete" ->
         IF CountWhere(s.likes, LikeKey(w.userId, w.postId)) = 0
           THEN Rejected(PrismaError("P2025"), s)
           ELSE Applied([s EXCEPT !.likes = @ (-) SetToBag({LikeKey(w.userId, w.postId)})])
    [] w.kind = "follows.create" ->
         IF UniqueViolation(s.follows, FollowKey(w.followerId, w.followingId))
           THEN Rejected(PrismaError("P2002"), s)
           ELSE Applied([s EXCEPT !.follows = Insert(@, FollowKey(w.followerId, w.followingId))])
    [] w.kind = "follows.delete" ->
         IF CountWhere(s.follows, FollowKey(w.followerId, w.followingId)) = 0
           THEN Rejected(PrismaError("P2025"), s)
           ELSE Applied([s EXCEPT !.follows = @ (-) SetToBag({FollowKey(w.followerId, w.followingId)})])
    [] w.kind = "comment.create" ->
         Applied([s EXCEPT !.comments = Insert(@, [postId |-> w.postId, authorId |-> w.authorId])])
    [] w.kind = "notification.create" ->
         Applied([s EXCEPT !.notifications = Insert(@, [type |-> w.type, userId |-> w.userId,
                    creatorId |-> w.creatorId, postId |-> w.postId, read |-> FALSE])])
    [] w.kind = "notification.deleteMany" ->
         Applied([s EXCEPT !.notifications = @ (-) RowsWhere(@, w.where)])

\* prisma.$transaction([...]) with the writes ws taken in order: all of them are
\* applied, or the first failure rolls the store back to s and is thrown.
\* failAt = i makes the i-th write fail in the store (0: no such failure).
RECURSIVE TransactionFrom(_, _, _, _, _)
TransactionFrom(s, cur, ws, i, failAt) ==
  IF i > Len(ws) THEN Applied(cur)
  ELSE IF failAt = i THEN Rejected(StoreFailure, s)
  ELSE LET r == ApplyWrite(cur, ws[i])
       IN IF r.err # NoError THEN Rejected(r.err, s)
          ELSE TransactionFrom(s, r.s, ws, i + 1, failAt)

\* a batch that is not atomic: the writes before the failing one stay applied
RECURSIVE PartialFrom(_, _, _, _)
PartialFrom(cur, ws, i, failAt) ==
  IF i > Len(ws) THEN Applied(cur)
  ELSE IF failAt = i THEN Rejected(StoreFailure, cur)
  ELSE LET r == ApplyWrite(cur, ws[i])
       IN IF r.err # NoError THEN Rejected(r.err, cur)
          ELSE PartialFrom(r.s, ws, i + 1, failAt)

RunTransactionPartial(s, ws, failAt) == PartialFrom(s, ws, 1, failAt)

RunTransaction(s, ws, failAt) == TransactionFrom(s, s, ws, 1, failAt)

\* ---------------------------------------------------------------- calls
\* a repository call suspended at an await: its arguments and the locals it
\* holds; atCommit is the observer's note of the post's Like rows when an
\* observed toggleLike committed its transaction, -1 before and for other calls
Call(op, pc, userId, postId, followingId, existing, authorId, observed) ==
  [op |-> op, pc |-> pc, userId |-> userId, postId |-> postId, followingId |-> followingId,
   existing |-> existing, authorId |-> authorId, observed |-> observed, atCommit |-> -1]

InFlight == BagToSet(calls)

Suspend(c) == calls (+) SetToBag({c})
Resume(c, next) == (calls (-) SetToBag({c})) (+) SetToBag({next})
Settle(c) == calls (-) SetToBag({c})

\* what a settled call handed to its caller: the operation, the error it threw
\* (NoError when it returned) and the liked / following flag it returned
Outcome(op, error, flag) == [op |-> op, error |-> error, flag |-> flag]

Returned(c, flag) == Outcome(c.op, NoError, flag)
Threw(c, error) == Outcome(c.op, error, FALSE)

NoOutcome == Outcome("none", NoError, FALSE)

MonOff == [phase |-> "off", userId |-> NoUser, postId |-> NoPost, liked0 |-> FALSE, count0 |-> 0,
           liked1 |-> FALSE, liked2 |-> FALSE, count2 |-> 0, likedEnd |-> FALSE]

\* the store right after the schema is migrated: no rows, no calls
InitStore ==
  /\ posts = [p \in PostIds |-> NoUser]
  /\ likes = EmptyBag
  /\ follows = EmptyBag
  /\ comments = EmptyBag
  /\ notifications = EmptyBag
  /\ calls = EmptyBag
  /\ last = NoOutcome
  /\ lastLiked = [k \in Users \X PostIds |-> FALSE]
  /\ lastFollowing = [k \in Users \X Users |-> FALSE]
  /\ pairMon = MonOff

\* null: no cursor
NoCursor == 0

\* a string, as far as trimming and length see it: the whitespace characters
\* before its first and after its last non-whitespace character, and the
\* characters from the one to the other (core = 0: the string is whitespace only)
Content(lead, core, trail) == [lead |-> lead, core |-> core, trail |-> trail]

\* no string: the field is not set
NoContent == [absent |-> TRUE]

\* String.prototype.length
Length(str) == str.lead + str.core + str.trail

\* String.prototype.trim
trim(str) == Content(0, str.core, 0)

\* .max(5000, "Post is too long (maximum 5000 characters)")
MaxContentLength == 5000

\* no PaginatedResult yet
NoResult == [pending |-> TRUE]

\* no pagination call is made
InitNoPage ==
  /\ items = <<>>
  /\ limit = MaxLimit
  /\ result = NoResult

\* no feed is read
InitNoFeed ==
  /\ feedPosts = <<>>
  /\ cursor = NoCursor
  /\ seen = <<>>
  /\ pageLens = <<>>
  /\ feedDone = FALSE

\* the identifiers calls are limited by
Keys == {"k1", "k2"}

\* storage.get(identifier) === undefined
NoEntry == [absent |-> TRUE]

NoLimitResult == [identifier |-> "none", success |-> FALSE, remaining |-> 0, resetAt |-> 0]

NoCheck == [state |-> "none", denied |-> FALSE, error |-> NoError]

NoWindow == [start |-> 0, calls |-> 0, successes |-> 0, opened |-> 0]

\* a limiter right after construction, under one policy
InitLimiterWith(max, win) ==
  /\ now = 0
  /\ storage = [k \in Keys |-> NoEntry]
  /\ maxRequests = max
  /\ windowMs = win
  /\ limited = NoLimitResult
  /\ checked = NoCheck
  /\ window = [k \in Keys |-> NoWindow]
  /\ unswept = [storage |-> storage, limited |-> limited]

InitNoLimiter == InitLimiterWith(MaxRequests, MaxWindow)

\* no server action has returned yet
Unanswered ==
  [op |-> "none", userId |-> NoUser, kind |-> "none", success |-> FALSE, error |-> "",
   denied |-> FALSE, wrote |-> FALSE, pc |-> "none", postId |-> NoPost, data |-> NoContent, post |-> NoContent]

InitNoAction ==
  /\ actionCalls = EmptyBag
  /\ acted = Unanswered

\* handleError has not returned
NoEnvelope == [pending |-> TRUE]

InitNoThrow ==
  /\ thrown = NoError
  /\ envelope = NoEnvelope

\* the user has liked nothing
InitNoLiked == likedRows = <<>>

\* no sign-up request has been made
NoResponse == [status |-> 0, email |-> NoContent, error |-> ""]

InitNoSignUp ==
  /\ users = {}
  /\ signUps = EmptyBag
  /\ responded = NoResponse

\* no GET notifications request has been answered
NotServed == [status |-> 0, userId |-> NoUser, notifications |-> {}, unreadCount |-> 0]

InitNoNotif ==
  /\ inbox = <<>>
  /\ fetches = EmptyBag
  /\ served = NotServed

InitNoMore == InitNoLiked /\ InitNoSignUp /\ InitNoNotif

Init == InitStore /\ InitNoPage /\ InitNoFeed /\ InitNoLimiter /\ InitNoAction /\ InitNoThrow /\ InitNoMore

\* ---------------------------------------------------------------- PrismaPostRepository.create
CreatePost(authorId) ==
  /\ \E p \in PostIds : posts[p] = NoUser
  /\ LET id == CHOOSE p \in PostIds : posts[p] = NoUser /\ \A q \in 1..(p - 1) : posts[q] # NoUser
     IN posts' = [posts EXCEPT ![id] = authorId]
  /\ UNCHANGED <<likes, follows, comments, notifications, calls, last, lastLiked, lastFollowing, pairMon, auxVars>>

\* ---------------------------------------------------------------- PrismaPostRepository.toggleLike
LikeCount(rows, postId) == CountWhere(rows, [postId |-> postId])

\* an unlike that leaves the Like row behind
UnlikeWritesKeepLike(postId, userId) ==
  <<NotificationDeleteMany([postId |-> postId, creatorId |-> userId, type |-> "LIKE"])>>

\* an unlike that leaves the notification behind
UnlikeWritesKeepNotification(postId, userId) == <<LikeDelete(userId, postId)>>

\* unlike branch: the batch handed to prisma.$transaction
UnlikeWrites(postId, userId) ==
  <<LikeDelete(userId, postId),
    NotificationDeleteMany([postId |-> postId, creatorId |-> userId, type |-> "LIKE"])>>

\* a like that notifies the author whoever likes
LikeWritesAlwaysNotify(postId, userId, authorId) ==
  <<LikeCreate(userId, postId), NotificationCreate("LIKE", authorId, userId, postId)>>

\* like branch: the notification is left out when the user likes their own post
LikeWrites(postId, userId, authorId) ==
  <<LikeCreate(userId, postId)>> \o
  (IF userId # authorId THEN <<NotificationCreate("LIKE", authorId, userId, postId)>> ELSE <<>>)

MonDead == [MonOff EXCEPT !.phase = "dead"]

\* the observer gives up when the observed call fails
MonAfterThrow(c) == IF c.observed /\ pairMon.phase \in {"first", "second"} THEN MonDead ELSE pairMon

\* the observer's step when a toggleLike call returns {liked, likeCount}
MonAfterReturn(c, liked, likeCount) ==
  IF c.observed /\ pairMon.phase = "first"
    THEN [pairMon EXCEPT !.phase = "between", !.liked1 = liked]
  ELSE IF c.observed /\ pairMon.phase = "second"
    THEN [pairMon EXCEPT !.phase = "done", !.liked2 = liked, !.count2 = likeCount,
                         !.likedEnd = (CountWhere(likes, LikeKey(c.userId, c.postId)) > 0)]
  ELSE pairMon

\* the observer's step when a toggleLike call on postId starts
MonAfterStart(postId, userId, existing, observe) ==
  IF observe
    THEN IF pairMon.phase = "off"
           THEN [MonOff EXCEPT !.phase = "first", !.userId = userId, !.postId = postId,
                               !.liked0 = existing, !.count0 = LikeCount(likes, postId)]
           ELSE [pairMon EXCEPT !.phase = "second"]
    ELSE IF pairMon.phase \in {"first", "between", "second"} /\ pairMon.postId = postId
           THEN MonDead
           ELSE pairMon

\* a toggle that reports the state it found instead of the state it left
ToggleLikeResultSwapped(existingLike) == existingLike

\* the liked flag each branch returns (lines 389 and 430)
ToggleLikeResult(existingLike) == ~existingLike

\* lines 355-362: const existingLike = await prisma.like.findUnique(...)
ToggleLikeFindLike(postId, userId, observe) ==
  /\ BagCardinality(calls) < MaxCalls
  /\ observe =>
       \/ /\ pairMon.phase = "off"
          /\ ~\E c \in InFlight : c.op = "toggleLike" /\ c.postId = postId
       \/ /\ pairMon.phase = "between"
          /\ pairMon.userId = userId
          /\ pairMon.postId = postId
  /\ LET existingLike == CountWhere(likes, LikeKey(userId, postId)) > 0
     IN /\ calls' = Suspend(Call("toggleLike", IF existingLike THEN "unlikeTx" ELSE "findPost",
                                 userId, postId, NoUser, existingLike, NoUser, observe))
        /\ pairMon' = MonAfterStart(postId, userId, existingLike, observe)
  /\ UNCHANGED <<posts, likes, follows, comments, notifications, last, lastLiked, lastFollowing, auxVars>>

\* lines 366-382: the unlike transaction
ToggleLikeUnlikeTx(c, failAt) ==
  /\ c \in InFlight
  /\ c.op = "toggleLike"
  /\ c.pc = "unlikeTx"
  /\ LET r == RunTransaction(Store, UnlikeWrites(c.postId, c.userId), failAt)
     IN IF r.err = NoError
          THEN /\ likes' = r.s.likes
               /\ notifications' = r.s.notifications
               /\ calls' = Resume(c, [c EXCEPT !.pc = "count",
                                                !.atCommit = IF c.observed THEN LikeCount(r.s.likes, c.postId) ELSE -1])
               /\ lastLiked' = [lastLiked EXCEPT ![<<c.userId, c.postId>>] = ToggleLikeResult(c.existing)]
               /\ UNCHANGED <<last, pairMon>>
          ELSE /\ likes' = r.s.likes
               /\ notifications' = r.s.notifications
               /\ calls' = Settle(c)
               /\ last' = Threw(c, r.err)
               /\ pairMon' = MonAfterThrow(c)
               /\ UNCHANGED lastLiked
  /\ UNCHANGED <<posts, follows, comments, lastFollowing, auxVars>>

\* the error thrown at line 400 when the post row is missing
PostNotFound == PlainError("Post not found")

\* lines 394-401: const post = await prisma.post.findUnique(...); if (!post) throw
ToggleLikeFindPost(c) ==
  /\ c \in InFlight
  /\ c.op = "toggleLike"
  /\ c.pc = "findPost"
  /\ IF posts[c.postId] = NoUser
       THEN /\ calls' = Settle(c)
            /\ last' = Threw(c, PostNotFound)
            /\ pairMon' = MonAfterThrow(c)
       ELSE /\ calls' = Resume(c, [c EXCEPT !.pc = "likeTx", !.authorId = posts[c.postId]])
            /\ UNCHANGED <<last, pairMon>>
  /\ UNCHANGED <<posts, likes, follows, comments, notifications, lastLiked, lastFollowing, auxVars>>

\* lines 403-423: the like transaction
ToggleLikeLikeTx(c, failAt) ==
  /\ c \in InFlight
  /\ c.op = "toggleLike"
  /\ c.pc = "likeTx"
  /\ LET r == RunTransaction(Store, LikeWrites(c.postId, c.userId, c.authorId), failAt)
     IN IF r.err = NoError
          THEN /\ likes' = r.s.likes
               /\ notifications' = r.s.notifications
               /\ calls' = Resume(c, [c EXCEPT !.pc = "count",
                                                !.atCommit = IF c.observed THEN LikeCount(r.s.likes, c.postId) ELSE -1])
               /\ lastLiked' = [lastLiked EXCEPT ![<<c.userId, c.postId>>] = ToggleLikeResult(c.existing)]
               /\ UNCHANGED <<last, pairMon>>
          ELSE /\ likes' = r.s.likes
               /\ notifications' = r.s.notifications
               /\ calls' = Settle(c)
               /\ last' = Threw(c, r.err)
               /\ pairMon' = MonAfterThrow(c)
               /\ UNCHANGED lastLiked
  /\ UNCHANGED <<posts, follows, comments, lastFollowing, auxVars>>

\* lines 384-391 and 425-432: likeCount = await prisma.like.count(...); return
ToggleLikeCount(c) ==
  /\ c \in InFlight
  /\ c.op = "toggleLike"
  /\ c.pc = "count"
  /\ LET likeCount == LikeCount(likes, c.postId)
         liked == ToggleLikeResult(c.existing)
     IN /\ last' = Returned(c, liked)
        /\ pairMon' = MonAfterReturn(c, liked, likeCount)
  /\ calls' = Settle(c)
  /\ UNCHANGED <<posts, likes, follows, comments, notifications, lastLiked, lastFollowing, auxVars>>

\* ---------------------------------------------------------------- PrismaUserRepository.toggleFollow
FollowerCount(rows, userId) == CountWhere(rows, [followingId |-> userId])

\* an unfollow that leaves the notification behind
UnfollowWritesKeepNotification(followerId, followingId) == <<FollowsDelete(followerId, followingId)>>

\* lines 138-154: the unfollow batch
UnfollowWrites(followerId, followingId) ==
  <<FollowsDelete(followerId, followingId),
    NotificationDeleteMany([userId |-> followingId, creatorId |-> followerId, type |-> "FOLLOW"])>>

\* lines 164-178: the follow batch; the FOLLOW notification carries no post
FollowWrites(followerId, followingId) ==
  <<FollowsCreate(followerId, followingId),
    NotificationCreate("FOLLOW", followingId, followerId, NoPost)>>

\* lines 127-134: const existingFollow = await prisma.follows.findUnique(...)
ToggleFollowFind(followerId, followingId) ==
  /\ BagCardinality(calls) < MaxCalls
  /\ LET existingFollow == CountWhere(follows, FollowKey(followerId, followingId)) > 0
     IN calls' = Suspend(Call("toggleFollow", IF existingFollow THEN "unfollowTx" ELSE "followTx",
                              followerId, NoPost, followingId, existingFollow, NoUser, FALSE))
  /\ UNCHANGED <<posts, likes, follows, comments, notifications, last, lastLiked, lastFollowing, pairMon, auxVars>>

\* the following flag each branch returns (lines 159 and 183)
ToggleFollowResult(existingFollow) == ~existingFollow

\* lines 136-154 and 162-178: the branch's transaction
ToggleFollowTx(c, failAt) ==
  /\ c \in InFlight
  /\ c.op = "toggleFollow"
  /\ c.pc \in {"unfollowTx", "followTx"}
  /\ LET ws == IF c.pc = "unfollowTx" THEN UnfollowWrites(c.userId, c.followingId)
                                      ELSE FollowWrites(c.userId, c.followingId)
         r == RunTransaction(Store, ws, failAt)
     IN IF r.err = NoError
          THEN /\ follows' = r.s.follows
               /\ notifications' = r.s.notifications
               /\ calls' = Resume(c, [c EXCEPT !.pc = "count"])
               /\ lastFollowing' = [lastFollowing EXCEPT ![<<c.userId, c.followingId>>] = ToggleFollowResult(c.existing)]
               /\ UNCHANGED last
          ELSE /\ follows' = r.s.follows
               /\ notifications' = r.s.notifications
               /\ calls' = Settle(c)
               /\ last' = Threw(c, r.err)
               /\ UNCHANGED lastFollowing
  /\ UNCHANGED <<posts, likes, comments, lastLiked, pairMon, auxVars>>

\* lines 156-161 and 180-185: followerCount = await this.getFollowerCount(followingId); return
ToggleFollowCount(c) ==
  /\ c \in InFlight
  /\ c.op = "toggleFollow"
  /\ c.pc = "count"
  /\ last' = Returned(c, ToggleFollowResult(c.existing))
  /\ calls' = Settle(c)
  /\ UNCHANGED <<posts, likes, follows, comments, notifications, lastLiked, lastFollowing, pairMon, auxVars>>

\* ---------------------------------------------------------------- FollowUserUseCase.execute
CannotFollowYourself == PlainError("Cannot follow yourself")

\* a use case that forwards every request
AcceptsEveryFollow(followerId, followingId) == NoError

\* the business rule checked before the repository is touched
FollowUserValidate(followerId, followingId) ==
  IF followerId = followingId THEN CannotFollowYourself ELSE NoError

\* validate, then delegate to userRepository.toggleFollow(followerId, followingId)
FollowUserExecute(followerId, followingId) ==
  LET rejection == FollowUserValidate(followerId, followingId)
  IN IF rejection # NoError
       THEN /\ last' = Outcome("followUser", rejection, FALSE)
            /\ UNCHANGED <<posts, likes, follows, comments, notifications, calls, lastLiked, lastFollowing, pairMon, auxVars>>
       ELSE ToggleFollowFind(followerId, followingId)

\* ---------------------------------------------------------------- PrismaPostRepository.createComment
\* lines 493-527: the batch; the notification is left out on one's own post
CommentWrites(postId, authorId, postAuthorId) ==
  <<CommentCreate(postId, authorId)>> \o
  (IF authorId # postAuthorId THEN <<NotificationCreate("COMMENT", postAuthorId, authorId, postId)>> ELSE <<>>)

\* createComment calls suspended before their transaction
CommentCallsInFlight ==
  BagCardinality([c \in {x \in InFlight : x.op = "createComment"} |-> calls[c]])

\* lines 483-490: const post = await prisma.post.findUnique(...); if (!post) throw
CreateCommentFindPost(postId, authorId) ==
  /\ BagCardinality(calls) < MaxCalls
  /\ BagCardinality(comments) + CommentCallsInFlight < MaxComments
  /\ LET c == Call("createComment", "commentTx", authorId, postId, NoUser, FALSE, posts[postId], FALSE)
     IN IF posts[postId] = NoUser
          THEN /\ last' = Threw(c, PostNotFound)
               /\ UNCHANGED calls
          ELSE /\ calls' = Suspend(c)
               /\ UNCHANGED last
  /\ UNCHANGED <<posts, likes, follows, comments, notifications, lastLiked, lastFollowing, pairMon, auxVars>>

\* lines 493-529: the transaction; its first result is returned
CreateCommentTx(c, failAt) ==
  /\ c \in InFlight
  /\ c.op = "createComment"
  /\ c.pc = "commentTx"
  /\ LET r == RunTransaction(Store, CommentWrites(c.postId, c.userId, c.authorId), failAt)
     IN /\ comments' = r.s.comments
        /\ notifications' = r.s.notifications
        /\ last' = IF r.err = NoError THEN Returned(c, TRUE) ELSE Threw(c, r.err)
  /\ calls' = Settle(c)
  /\ UNCHANGED <<posts, likes, follows, lastLiked, lastFollowing, pairMon, auxVars>>

\* ---------------------------------------------------------------- createPaginatedResult
\* rows are identified by their id; a list of rows holds each id at most once
ItemIds == 1..MaxItems

Item(id) == [id |-> id]

Lists(ids, maxLen) ==
  UNION {{s \in [1..n -> {Item(i) : i \in ids}] : \A a \in 1..n, b \in 1..n : a # b => s[a] # s[b]} : n \in 0..maxLen}

\* items.slice(0, -1): every element but the last
SliceDropLast(list) == SubSeq(list, 1, Len(list) - 1)

PaginatedResult(resultItems, nextCursor, hasNextPage) ==
  [items |-> resultItems, nextCursor |-> nextCursor, hasNextPage |-> hasNextPage]

\* a helper that reports a next page for a list of exactly limit rows
createPaginatedResultOffByOne(list, pageSize) ==
  LET hasNextPage == Len(list) >= pageSize
      resultItems == IF hasNextPage THEN SliceDropLast(list) ELSE list
  IN PaginatedResult(resultItems,
                     IF hasNextPage /\ resultItems # <<>> THEN resultItems[Len(resultItems)].id ELSE NoCursor,
                     hasNextPage)

createPaginatedResult(list, pageSize) ==
  LET hasNextPage == Len(list) > pageSize
      resultItems == IF hasNextPage THEN SliceDropLast(list) ELSE list
  IN PaginatedResult(resultItems,
                     IF hasNextPage THEN resultItems[Len(resultItems)].id ELSE NoCursor,
                     hasNextPage)

\* one call of the helper on the list and limit drawn at the start
Paginate ==
  /\ result = NoResult
  /\ result' = createPaginatedResult(items, limit)
  /\ UNCHANGED <<items, limit, storeVars, feedVars, limiterVars, actionVars, errorVars, moreVars>>

\* ---------------------------------------------------------------- PrismaPostRepository.getFeed
CreationTimes == 1..MaxStamp

\* the rows a cursor admits: Prisma compares on the orderBy column, keeping
\* every row created at or before the cursor row (createdAt <= the cursor's)
CursorAdmits(table, cursorId) ==
  {id \in DOMAIN table : cursorId = NoCursor \/ table[id] <= table[cursorId]}

\* orderBy: { createdAt: "desc" }: the store may return rows of one creation
\* time in any order
OrderedByCreatedAtDesc(table, ids) ==
  {s \in Lists(ids, Cardinality(ids)) :
     /\ Len(s) = Cardinality(ids)
     /\ \A a \in 1..Len(s), b \in 1..Len(s) : a < b => table[s[a].id] >= table[s[b].id]}

Skip(list, n) == SubSeq(list, n + 1, Len(list))

Take(list, n) == SubSeq(list, 1, IF n < Len(list) THEN n ELSE Len(list))

\* prisma.post.findMany({take, cursor: {id}, skip: 1, orderBy: {createdAt: "desc"}}):
\* the row lists the store may answer with
FindManyPosts(table, cursorId, take) ==
  {Take(Skip(s, IF cursorId = NoCursor THEN 0 ELSE 1), take) :
     s \in OrderedByCreatedAtDesc(table, CursorAdmits(table, cursorId))}

\* one getFeed call of a client that walks the feed: it passes the cursor the
\* previous page returned and stops at hasNextPage = false
GetFeed ==
  /\ ~feedDone
  /\ Len(seen) <= MaxItems
  /\ \E rows \in FindManyPosts(feedPosts, cursor, limit + 1) :
       LET page == createPaginatedResult(rows, limit)
       IN /\ result' = page
          /\ seen' = seen \o [i \in 1..Len(page.items) |-> page.items[i].id]
          /\ pageLens' = Append(pageLens, Len(page.items))
          /\ cursor' = page.nextCursor
          /\ feedDone' = ~page.hasNextPage
  /\ UNCHANGED <<feedPosts, items, limit, storeVars, limiterVars, actionVars, errorVars, moreVars>>

\* ---------------------------------------------------------------- PrismaPostRepository.getUserLikedPosts
\* ids are cuids: a Like row's id is no Post's id
LikeRowId(n) == MaxItems + n

\* the Like rows a cursor admits: none when no Like row has the cursor's id
LikeCursorAdmits(table, cursorId) ==
  IF cursorId = NoCursor THEN DOMAIN table
  ELSE IF cursorId \notin DOMAIN table THEN {}
  ELSE {id \in DOMAIN table : table[id].createdAt <= table[cursorId].createdAt}

\* prisma.like.findMany({where: {userId}, take, cursor: {id}, skip: 1,
\* orderBy: {createdAt: "desc"}}): the lists of Like rows the store may answer with
FindManyLikes(table, cursorId, take) ==
  LET stamps == [id \in DOMAIN table |-> table[id].createdAt]
  IN {Take(Skip(s, IF cursorId = NoCursor THEN 0 ELSE 1), take) :
        s \in OrderedByCreatedAtDesc(stamps, LikeCursorAdmits(table, cursorId))}

\* likes.map((like) => like.post)
LikedPosts(table, rows) == [i \in 1..Len(rows) |-> Item(table[rows[i].id].postId)]

\* one getUserLikedPosts call of a client that walks a user's liked posts: it
\* passes the cursor the previous page returned and stops at hasNextPage = false
GetUserLikedPosts ==
  /\ ~feedDone
  /\ Len(seen) <= MaxItems
  /\ \E rows \in FindManyLikes(likedRows, cursor, limit + 1) :
       LET page == createPaginatedResult(LikedPosts(likedRows, rows), limit)
       IN /\ result' = page
          /\ seen' = seen \o [i \in 1..Len(page.items) |-> page.items[i].id]
          /\ pageLens' = Append(pageLens, Len(page.items))
          /\ cursor' = page.nextCursor
          /\ feedDone' = ~page.hasNextPage
  /\ UNCHANGED <<feedPosts, items, limit, storeVars, limiterVars, actionVars, errorVars, moreVars>>

\* ---------------------------------------------------------------- InMemoryRateLimiter
Entry(count, resetAt) == [count |-> count, resetAt |-> resetAt]

LimitResult(success, remaining, resetAt) == [success |-> success, remaining |-> remaining, resetAt |-> resetAt]

\* an increment that is lost
NotIncremented(entry) == entry

\* entry.count++
Incremented(entry) == [entry EXCEPT !.count = @ + 1]

\* a write that lands on every identifier
StorageSetEveryKey(store, identifier, entry) == [k \in DOMAIN store |-> entry]

\* this.storage.set(identifier, entry)
StorageSet(store, identifier, entry) == [store EXCEPT ![identifier] = entry]

\* a window that already counts as over at its resetAt
ExpiredAtResetAt(entry, clock) == clock >= entry.resetAt

\* now > entry.resetAt
Expired(entry, clock) == clock > entry.resetAt

\* an identifier that has used up its window: its entry is at maxRequests and not expired
Exhausted(k) == storage[k] # NoEntry /\ storage[k].count >= maxRequests /\ ~Expired(storage[k], now)

\* a denied call that counts itself
DeniedCounted(entry) == Incremented(entry)

\* lines 56-63: the deny branch returns without writing, the entry stays as stored
Denied(entry) == entry

\* the body of limit: the entry it leaves for the identifier and what it returns.
\* The body has no await, so it runs from Date.now() to its return in one step.
InMemoryRateLimiterLimit(entry, clock, max, win) ==
  IF entry = NoEntry \/ Expired(entry, clock)
    THEN [entry |-> Entry(1, clock + win), result |-> LimitResult(TRUE, max - 1, clock + win)]
  ELSE IF entry.count >= max
    THEN [entry |-> Denied(entry), result |-> LimitResult(FALSE, 0, entry.resetAt)]
  ELSE LET next == Incremented(entry)
       IN [entry |-> next, result |-> LimitResult(TRUE, max - next.count, next.resetAt)]

\* the observer's view of a call at time clock: a window opens with the first
\* call and with the first call made after clock has passed start + win
WindowElapsed(w, clock, win) == w.opened = 0 \/ clock > w.start + win

Observe(w, clock, win, success) ==
  IF WindowElapsed(w, clock, win)
    THEN [start |-> clock, calls |-> 1, successes |-> IF success THEN 1 ELSE 0,
          opened |-> IF w.opened = 0 THEN 1 ELSE 2]
  ELSE [w EXCEPT !.calls = @ + 1, !.successes = IF success THEN @ + 1 ELSE @]

\* at most MaxDenied calls beyond maxRequests are made in one window
CallAllowed(identifier) ==
  \/ WindowElapsed(window[identifier], now, windowMs)
  \/ window[identifier].calls < maxRequests + MaxDenied

\* the same call made on the limiter that is never swept
Unswept(identifier) ==
  LET r == InMemoryRateLimiterLimit(unswept.storage[identifier], now, maxRequests, windowMs)
  IN [storage |-> StorageSet(unswept.storage, identifier, r.entry),
      limited |-> [identifier |-> identifier, success |-> r.result.success,
                   remaining |-> r.result.remaining, resetAt |-> r.result.resetAt]]

Tick ==
  /\ now < MaxTime
  /\ now' = now + 1
  /\ UNCHANGED <<storage, maxRequests, windowMs, limited, checked, window, unswept, storeVars, pageVars, feedVars, actionVars, errorVars, moreVars>>

Limit(identifier) ==
  /\ CallAllowed(identifier)
  /\ LET r == InMemoryRateLimiterLimit(storage[identifier], now, maxRequests, windowMs)
     IN /\ storage' = StorageSet(storage, identifier, r.entry)
        /\ limited' = [identifier |-> identifier, success |-> r.result.success,
                       remaining |-> r.result.remaining, resetAt |-> r.result.resetAt]
        /\ window' = [window EXCEPT ![identifier] = Observe(@, now, windowMs, r.result.success)]
        /\ unswept' = Unswept(identifier)
  /\ UNCHANGED <<now, maxRequests, windowMs, checked, storeVars, pageVars, feedVars, actionVars, errorVars, moreVars>>

\* throw new Error(`${limitConfig.message} Try again in ${resetIn} minute(s).`)
TooManyRequests == PlainError("Too many requests. Try again in 1 minute.")

\* checkRateLimit: one limit call, then a throw when it was denied
CheckRateLimit(identifier) ==
  /\ CallAllowed(identifier)
  /\ LET r == InMemoryRateLimiterLimit(storage[identifier], now, maxRequests, windowMs)
     IN /\ storage' = StorageSet(storage, identifier, r.entry)
        /\ limited' = [identifier |-> identifier, success |-> r.result.success,
                       remaining |-> r.result.remaining, resetAt |-> r.result.resetAt]
        /\ window' = [window EXCEPT ![identifier] = Observe(@, now, windowMs, r.result.success)]
        /\ unswept' = Unswept(identifier)
        /\ checked' = IF ~r.result.success
                        THEN [state |-> "threw", denied |-> TRUE, error |-> TooManyRequests]
                        ELSE [state |-> "returned", denied |-> FALSE, error |-> NoError]
  /\ UNCHANGED <<now, maxRequests, windowMs, storeVars, pageVars, feedVars, actionVars, errorVars, moreVars>>

\* a sweep that deletes every entry
SweptAlways(entry, clock) == TRUE

\* line 90: if (now > entry.resetAt) this.storage.delete(key)
Swept(entry, clock) == clock > entry.resetAt

\* the sweep the constructor schedules with setInterval
Cleanup ==
  /\ storage' = [k \in Keys |-> IF storage[k] # NoEntry /\ Swept(storage[k], now) THEN NoEntry ELSE storage[k]]
  /\ UNCHANGED <<now, maxRequests, windowMs, limited, checked, window, unswept, storeVars, pageVars, feedVars, actionVars, errorVars, moreVars>>

\* ---------------------------------------------------------------- post.action.ts
\* what the server actions never touch
actionIdle == <<follows, calls, last, lastLiked, lastFollowing, pairMon, pageVars, feedVars, limiterVars, errorVars, moreVars>>

\* a server action suspended at an await: its arguments, the locals it holds,
\* whether the limiter would have denied its caller when it was invoked, and
\* whether it has written to the store
ActionCall(op, pc, userId, postId, existing, authorId, denied, wrote) ==
  [op |-> op, pc |-> pc, userId |-> userId, postId |-> postId, existing |-> existing,
   authorId |-> authorId, denied |-> denied, wrote |-> wrote, data |-> NoContent, content |-> NoContent]

ActionsInFlight == BagToSet(actionCalls)

ActionResume(c, next) == (actionCalls (-) SetToBag({c})) (+) SetToBag({next})

ActionSettle(c) == actionCalls (-) SetToBag({c})

\* getUserRateLimitKey: the identifier a user's calls are limited by
getUserRateLimitKey(userId) == IF userId = "u1" THEN "k1" ELSE "k2"

\* rateLimiter.limit would answer success: false for this caller now
LimiterDenies(userId) == userId # NoUser /\ Exhausted(getUserRateLimitKey(userId))

\* the message of each action's catch block
FailureMessage(op) ==
  CASE op = "createPost" -> "Failed to create post"
    [] op = "toggleLike" -> "Failed to toggle like"
    [] op = "createComment" -> "Failed to create comment"
    [] op = "deletePost" -> "Failed to delete post"

\* if (!userId) return;
ReturnedUndefined(c) ==
  [op |-> c.op, userId |-> c.userId, kind |-> "undefined", success |-> FALSE, error |-> "",
   denied |-> c.denied, wrote |-> c.wrote, pc |-> c.pc, postId |-> c.postId, data |-> c.data, post |-> NoContent]

\* return { success: true, ... }
SuccessEnvelope(c, wrote) ==
  [op |-> c.op, userId |-> c.userId, kind |-> "envelope", success |-> TRUE, error |-> "",
   denied |-> c.denied, wrote |-> wrote, pc |-> c.pc, postId |-> c.postId, data |-> c.data, post |-> NoContent]

\* catch (error) { return { success: false, error: "Failed to ..." } }
FailureEnvelope(c, wrote) ==
  [op |-> c.op, userId |-> c.userId, kind |-> "envelope", success |-> FALSE, error |-> FailureMessage(c.op),
   denied |-> c.denied, wrote |-> wrote, pc |-> c.pc, postId |-> c.postId, data |-> c.data, post |-> NoContent]

\* the first lines of every write action: resolve the caller, return undefined
\* without a session, validate the input, go on to the first store call
ActionEnter(c, valid, firstPc) ==
  /\ BagCardinality(actionCalls) < MaxCalls
  /\ IF c.userId = NoUser
       THEN acted' = ReturnedUndefined(c) /\ UNCHANGED actionCalls
     ELSE IF ~valid
       THEN acted' = FailureEnvelope(c, FALSE) /\ UNCHANGED actionCalls
     ELSE actionCalls' = actionCalls (+) SetToBag({[c EXCEPT !.pc = firstPc]}) /\ UNCHANGED acted
  /\ UNCHANGED <<posts, likes, comments, notifications, actionIdle>>

\* createPostSchema.parse on the content field: min(1) and max(5000) see the
\* string as passed, the transform trims what they let through
createPostSchemaParse(str) ==
  IF Length(str) >= 1 /\ Length(str) <= MaxContentLength
    THEN [success |-> TRUE, content |-> trim(str)]
    ELSE [success |-> FALSE, content |-> NoContent]

\* createPost, lines 15-22: getDbUserId, createPostSchema.parse, parsed.content.trim()
ActionCreatePost(userId, data) ==
  LET parsed == createPostSchemaParse(data)
      c == ActionCall("createPost", "enter", userId, NoPost, FALSE, NoUser, LimiterDenies(userId), FALSE)
  IN ActionEnter([c EXCEPT !.data = data,
                           !.content = IF parsed.success THEN trim(parsed.content) ELSE NoContent],
                 parsed.success, "create")

\* createPost, lines 24-33: prisma.post.create
ActionCreatePostCreate(c, fail) ==
  /\ c \in ActionsInFlight
  /\ c.op = "createPost"
  /\ c.pc = "create"
  /\ \E p \in PostIds : posts[p] = NoUser
  /\ IF fail
       THEN acted' = FailureEnvelope(c, c.wrote) /\ UNCHANGED posts
       ELSE /\ LET id == CHOOSE p \in PostIds : posts[p] = NoUser /\ \A q \in 1..(p - 1) : posts[q] # NoUser
               IN posts' = [posts EXCEPT ![id] = c.userId]
            /\ acted' = [SuccessEnvelope(c, TRUE) EXCEPT !.post = c.content]
  /\ actionCalls' = ActionSettle(c)
  /\ UNCHANGED <<likes, comments, notifications, actionIdle>>

\* toggleLike, lines 93-94: getDbUserId
ActionToggleLike(postId, userId) ==
  ActionEnter(ActionCall("toggleLike", "enter", userId, postId, FALSE, NoUser, LimiterDenies(userId), FALSE),
              TRUE, "findLike")

\* toggleLike, lines 97-104: prisma.like.findUnique
ActionToggleLikeFindLike(c) ==
  /\ c \in ActionsInFlight
  /\ c.op = "toggleLike"
  /\ c.pc = "findLike"
  /\ actionCalls' = ActionResume(c, [c EXCEPT !.pc = "findPost",
                                             !.existing = CountWhere(likes, LikeKey(c.userId, c.postId)) > 0])
  /\ UNCHANGED <<posts, likes, comments, notifications, acted, actionIdle>>

\* toggleLike, lines 106-111: prisma.post.findUnique; if (!post) throw
ActionToggleLikeFindPost(c) ==
  /\ c \in ActionsInFlight
  /\ c.op = "toggleLike"
  /\ c.pc = "findPost"
  /\ IF posts[c.postId] = NoUser
       THEN /\ actionCalls' = ActionSettle(c)
            /\ acted' = FailureEnvelope(c, c.wrote)
       ELSE /\ actionCalls' = ActionResume(c, [c EXCEPT !.pc = IF c.existing THEN "unlike" ELSE "like",
                                                        !.authorId = posts[c.postId]])
            /\ UNCHANGED acted
  /\ UNCHANGED <<posts, likes, comments, notifications, actionIdle>>

\* toggleLike, lines 113-122: the unlike branch deletes the Like row, nothing else
ActionUnlikeWrites(postId, userId) == <<LikeDelete(userId, postId)>>

\* toggleLike, lines 113-148: the write of either branch, then return { success: true }
ActionToggleLikeWrite(c, failAt) ==
  /\ c \in ActionsInFlight
  /\ c.op = "toggleLike"
  /\ c.pc \in {"unlike", "like"}
  /\ BagCardinality(notifications) < MaxNotifications
  /\ LET ws == IF c.pc = "unlike" THEN ActionUnlikeWrites(c.postId, c.userId)
                                  ELSE LikeWrites(c.postId, c.userId, c.authorId)
         r == RunTransaction(Store, ws, failAt)
     IN /\ failAt <= Len(ws)
        /\ likes' = r.s.likes
        /\ notifications' = r.s.notifications
        /\ acted' = IF r.err = NoError THEN SuccessEnvelope(c, TRUE) ELSE FailureEnvelope(c, c.wrote)
  /\ actionCalls' = ActionSettle(c)
  /\ UNCHANGED <<posts, comments, actionIdle>>

\* createComment, lines 157-162: getDbUserId, createCommentSchema.parse, empty content
ActionCreateComment(postId, userId, valid) ==
  ActionEnter(ActionCall("createComment", "enter", userId, postId, FALSE, NoUser, LimiterDenies(userId), FALSE),
              valid, "findPost")

\* createComment, lines 164-169: prisma.post.findUnique; if (!post) throw
ActionCreateCommentFindPost(c) ==
  /\ c \in ActionsInFlight
  /\ c.op = "createComment"
  /\ c.pc = "findPost"
  /\ IF posts[c.postId] = NoUser
       THEN /\ actionCalls' = ActionSettle(c)
            /\ acted' = FailureEnvelope(c, c.wrote)
       ELSE /\ actionCalls' = ActionResume(c, [c EXCEPT !.pc = "comment", !.authorId = posts[c.postId]])
            /\ UNCHANGED acted
  /\ UNCHANGED <<posts, likes, comments, notifications, actionIdle>>

\* createComment, lines 171-179: prisma.comment.create, on its own
ActionCreateCommentCreate(c, fail) ==
  /\ c \in ActionsInFlight
  /\ c.op = "createComment"
  /\ c.pc = "comment"
  /\ BagCardinality(comments) < MaxComments
  /\ IF fail
       THEN /\ actionCalls' = ActionSettle(c)
            /\ acted' = FailureEnvelope(c, c.wrote)
            /\ UNCHANGED comments
       ELSE /\ comments' = ApplyWrite(Store, CommentCreate(c.postId, c.userId)).s.comments
            /\ IF c.authorId # c.userId
                 THEN /\ actionCalls' = ActionResume(c, [c EXCEPT !.pc = "notify", !.wrote = TRUE])
                      /\ UNCHANGED acted
                 ELSE /\ actionCalls' = ActionSettle(c)
                      /\ acted' = SuccessEnvelope(c, TRUE)
  /\ UNCHANGED <<posts, likes, notifications, actionIdle>>

\* createComment, lines 179-192: prisma.notification.create, after the comment is stored
ActionCreateCommentNotify(c, fail) ==
  /\ c \in ActionsInFlight
  /\ c.op = "createComment"
  /\ c.pc = "notify"
  /\ BagCardinality(notifications) < MaxNotifications
  /\ IF fail
       THEN /\ acted' = FailureEnvelope(c, c.wrote)
            /\ UNCHANGED notifications
       ELSE /\ notifications' =
                 ApplyWrite(Store, NotificationCreate("COMMENT", c.authorId, c.userId, c.postId)).s.notifications
            /\ acted' = SuccessEnvelope(c, TRUE)
  /\ actionCalls' = ActionSettle(c)
  /\ UNCHANGED <<posts, likes, comments, actionIdle>>

\* deletePost, line 201: getDbUserId; the action goes on without a session
ActionDeletePost(postId, userId) ==
  /\ BagCardinality(actionCalls) < MaxCalls
  /\ actionCalls' = actionCalls (+) SetToBag({ActionCall("deletePost", "findPost", userId, postId, FALSE, NoUser,
                                                         LimiterDenies(userId), FALSE)})
  /\ UNCHANGED <<posts, likes, comments, notifications, acted, actionIdle>>

MayDeleteAnyPost(authorId, userId) == TRUE

\* deletePost, line 209: post.authorId !== userId throws
MayDelete(authorId, userId) == authorId = userId

\* deletePost, lines 203-209: prisma.post.findUnique; throw unless the post
\* exists and the caller is its author
ActionDeletePostFindPost(c) ==
  /\ c \in ActionsInFlight
  /\ c.op = "deletePost"
  /\ c.pc = "findPost"
  /\ IF posts[c.postId] = NoUser \/ ~MayDelete(posts[c.postId], c.userId)
       THEN /\ actionCalls' = ActionSettle(c)
            /\ acted' = FailureEnvelope(c, c.wrote)
       ELSE /\ actionCalls' = ActionResume(c, [c EXCEPT !.pc = "delete", !.authorId = posts[c.postId]])
            /\ UNCHANGED acted
  /\ UNCHANGED <<posts, likes, comments, notifications, actionIdle>>

\* deletePost, lines 211-216: prisma.post.delete, which throws when the row is
\* gone or the store fails
ActionDeletePostDelete(c, fail) ==
  /\ c \in ActionsInFlight
  /\ c.op = "deletePost"
  /\ c.pc = "delete"
  /\ IF fail \/ posts[c.postId] = NoUser
       THEN acted' = FailureEnvelope(c, c.wrote) /\ UNCHANGED posts
       ELSE /\ posts' = [posts EXCEPT ![c.postId] = NoUser]
            /\ acted' = SuccessEnvelope(c, TRUE)
  /\ actionCalls' = ActionSettle(c)
  /\ UNCHANGED <<likes, comments, notifications, actionIdle>>

\* ---------------------------------------------------------------- POST /api/auth/sign-up
\* what a sign-up request never touches
signUpIdle == <<storeVars, pageVars, feedVars, limiterVars, actionVars, errorVars, likedVars, notifVars>>

\* an email address as typed: its local part, whether it is typed in upper
\* case, whether it is padded with whitespace; the empty local part is the
\* empty string
Email(name, upper, padded) == [name |-> name, upper |-> upper, padded |-> padded]

\* email.trim().toLowerCase()
normalizeEmail(email) == Email(email.name, FALSE, FALSE)

\* body.username is not set
NoName == "none"

\* a username: its text, the Date.now() appended to a generated one (-1 when
\* none) and the numeric suffix appended by the search for a free one (0: none)
Username(text, stamp, suffix) == [text |-> text, stamp |-> stamp, suffix |-> suffix]

\* email.split("@")[0].replace(/[^a-zA-Z0-9_]/g, "")
baseUsernameFromEmail(email) == email.name

\* lines 39-40: the username the search starts from
FirstUsername(bodyUsername, email, clock) ==
  LET text == IF bodyUsername # NoName THEN bodyUsername ELSE baseUsernameFromEmail(email)
  IN IF text = "" THEN Username("user", clock, 0) ELSE Username(text, -1, 0)

User(email, username) == [email |-> email, username |-> username]

\* Response.json(body, { status })
Response(status, email, error) == [status |-> status, email |-> email, error |-> error]

SignUpsInFlight == BagToSet(signUps)

SignUpResume(c, next) == (signUps (-) SetToBag({c})) (+) SetToBag({next})

SignUpSettle(c) == signUps (-) SetToBag({c})

\* lines 20-30: read the body, normalize the email, 400 without email or password
SignUp(email, hasPassword, bodyUsername) ==
  /\ BagCardinality(signUps) < MaxCalls
  /\ IF normalizeEmail(email).name = "" \/ ~hasPassword
       THEN /\ responded' = Response(400, normalizeEmail(email), "Email and password are required")
            /\ UNCHANGED signUps
       ELSE /\ signUps' = signUps (+) SetToBag({[pc |-> "findEmail", email |-> normalizeEmail(email),
                                                  bodyUsername |-> bodyUsername, username |-> NoContent]})
            /\ UNCHANGED responded
  /\ UNCHANGED <<users, signUpIdle>>

\* prisma.user.findUnique({ where: { email } })
EmailInUse(table, email) == \E u \in table : u.email = email

\* prisma.user.findUnique({ where: { username } })
UsernameTaken(table, username) == \E u \in table : u.username = username

\* lines 32-40: 409 when a User row has the email; otherwise hash the password
\* and choose the username to start from
SignUpFindEmail(c) ==
  /\ c \in SignUpsInFlight
  /\ c.pc = "findEmail"
  /\ IF EmailInUse(users, c.email)
       THEN /\ responded' = Response(409, c.email, "Email already in use")
            /\ signUps' = SignUpSettle(c)
       ELSE /\ signUps' = SignUpResume(c, [c EXCEPT !.pc = "findUsername",
                                                    !.username = FirstUsername(c.bodyUsername, c.email, now)])
            /\ UNCHANGED responded
  /\ UNCHANGED <<users, signUpIdle>>

\* lines 42-51: one round of the search for a free username
SignUpFindUsername(c) ==
  /\ c \in SignUpsInFlight
  /\ c.pc = "findUsername"
  /\ signUps' = SignUpResume(c, IF UsernameTaken(users, c.username)
                                  THEN [c EXCEPT !.username.suffix = @ + 1]
                                  ELSE [c EXCEPT !.pc = "create"])
  /\ UNCHANGED <<users, responded, signUpIdle>>

\* lines 53-67: prisma.user.create, which the store rejects when the email or
\* the username is taken by then; every throw is answered with 500
SignUpCreate(c, fail) ==
  /\ c \in SignUpsInFlight
  /\ c.pc = "create"
  /\ Cardinality(users) < MaxUsers
  /\ IF fail \/ EmailInUse(users, c.email) \/ UsernameTaken(users, c.username)
       THEN /\ responded' = Response(500, c.email, "Sign-up failed")
            /\ UNCHANGED users
       ELSE /\ users' = users \cup {User(c.email, c.username)}
            /\ responded' = Response(201, c.email, "")
  /\ signUps' = SignUpSettle(c)
  /\ UNCHANGED signUpIdle

\* ---------------------------------------------------------------- GET /api/notifications
\* what the notifications handler never touches
notifIdle == <<storeVars, pageVars, feedVars, limiterVars, actionVars, errorVars, likedVars, signUpVars>>

FetchesInFlight == BagToSet(fetches)

\* res.status(status).json({ notifications, unreadCount }); a 405 carries neither
Served(status, userId, rows, unreadCount) ==
  [status |-> status, userId |-> userId, notifications |-> rows, unreadCount |-> unreadCount]

\* the catch block, and the answer without a session
ServedNothing(userId) == Served(200, userId, {}, 0)

\* a notification is created for a user, unread, by whatever else runs
Notify(userId) ==
  /\ Len(inbox) < MaxNotifications
  /\ inbox' = Append(inbox, [userId |-> userId, read |-> FALSE])
  /\ UNCHANGED <<fetches, served, notifIdle>>

\* lines 7-17: 405 for any method but GET, the empty answer without a session
Handler(method, userId) ==
  /\ BagCardinality(fetches) < MaxCalls
  /\ IF method # "GET"
       THEN served' = Served(405, userId, {}, 0) /\ UNCHANGED fetches
     ELSE IF userId = NoUser
       THEN served' = ServedNothing(userId) /\ UNCHANGED fetches
     ELSE /\ fetches' = fetches (+) SetToBag({[pc |-> "findMany", userId |-> userId, notifications |-> {}]})
          /\ UNCHANGED served
  /\ UNCHANGED <<inbox, notifIdle>>

\* prisma.notification.findMany({ where: { userId } }): the rows with the read
\* flag they have now
FindManyNotifications(table, userId) ==
  {[id |-> id, read |-> table[id].read] : id \in {i \in DOMAIN table : table[i].userId = userId}}

\* notifications.filter((notification) => !notification.read).map((n) => n.id)
UnreadIds(rows) == {n.id : n \in {x \in rows : ~x.read}}

\* an update that marks every row
UpdateManyReadAll(table, ids) == [id \in DOMAIN table |-> [table[id] EXCEPT !.read = TRUE]]

\* prisma.notification.updateMany({ where: { id: { in: ids } }, data: { read: true } })
UpdateManyRead(table, ids) ==
  [id \in DOMAIN table |-> IF id \in ids THEN [table[id] EXCEPT !.read = TRUE] ELSE table[id]]

\* lines 19-55: the fetch; with nothing unread the handler answers at once
HandlerFindMany(c, fail) ==
  /\ c \in FetchesInFlight
  /\ c.pc = "findMany"
  /\ LET rows == FindManyNotifications(inbox, c.userId)
     IN IF fail
          THEN /\ served' = ServedNothing(c.userId)
               /\ fetches' = fetches (-) SetToBag({c})
        ELSE IF UnreadIds(rows) = {}
          THEN /\ served' = Served(200, c.userId, rows, 0)
               /\ fetches' = fetches (-) SetToBag({c})
        ELSE /\ fetches' = (fetches (-) SetToBag({c})) (+)
                             SetToBag({[c EXCEPT !.pc = "updateMany", !.notifications = rows]})
             /\ UNCHANGED served
  /\ UNCHANGED <<inbox, notifIdle>>

\* lines 56-66: the update of the rows fetched unread, then the answer
HandlerUpdateMany(c, fail) ==
  /\ c \in FetchesInFlight
  /\ c.pc = "updateMany"
  /\ IF fail
       THEN /\ served' = ServedNothing(c.userId)
            /\ UNCHANGED inbox
       ELSE /\ inbox' = UpdateManyRead(inbox, UnreadIds(c.notifications))
            /\ served' = Served(200, c.userId, c.notifications, Cardinality(UnreadIds(c.notifications)))
  /\ fetches' = fetches (-) SetToBag({c})
  /\ UNCHANGED notifIdle

\* ---------------------------------------------------------------- handleError
\* messages an error may carry, the empty one included
Messages == {"", "Test error", "Something went wrong"}

\* the subclasses of AppError with the statusCode and code their constructors fix
AppErrorKinds ==
  {<<"NotFoundError", 404, "NOT_FOUND">>, <<"UnauthorizedError", 401, "UNAUTHORIZED">>,
   <<"ForbiddenError", 403, "FORBIDDEN">>, <<"ValidationError", 400, "VALIDATION_ERROR">>,
   <<"RateLimitError", 429, "RATE_LIMIT_EXCEEDED">>, <<"ConflictError", 409, "CONFLICT">>,
   <<"InternalServerError", 500, "INTERNAL_SERVER_ERROR">>, <<"BadRequestError", 400, "BAD_REQUEST">>,
   <<"AppError", 500, "none">>, <<"AppError", 500, "TEST_ERROR">>, <<"AppError", 400, "DETAILED_ERROR">>}

AppErrors ==
  {[class |-> k[1], message |-> msg, statusCode |-> k[2], code |-> k[3]] : k \in AppErrorKinds, msg \in Messages}

ZodErrors == {ZodError(issues) : issues \in UNION {[1..n -> Messages] : n \in 0..MaxIssues}}

\* errors that are neither an AppError nor a ZodError
OtherErrors ==
  {[class |-> cls, message |-> msg, statusCode |-> 0, code |-> "none"] :
     cls \in {"Error", "TypeError", "PrismaClientKnownRequestError"}, msg \in Messages}

\* thrown values that are no Error at all: throw "String error", throw null, ...
NonErrors ==
  {[class |-> cls, message |-> msg, statusCode |-> 0, code |-> "none"] :
     cls \in {"string", "null", "undefined", "object"}, msg \in Messages}

ThrownValues == AppErrors \cup ZodErrors \cup OtherErrors \cup NonErrors

\* one call of handleError on the value drawn at the start
HandleError ==
  /\ envelope = NoEnvelope
  /\ envelope' = handleError(thrown)
  /\ UNCHANGED <<thrown, storeVars, pageVars, feedVars, limiterVars, actionVars, moreVars>>

\* ---------------------------------------------------------------- specifications
\* a transaction of at most two writes fails at its first write, at its second, or not at all
FailPoints == 0..2

ToggleLikeSteps ==
  \/ \E c \in InFlight : ToggleLikeFindPost(c)
  \/ \E c \in InFlight, f \in FailPoints : ToggleLikeUnlikeTx(c, f)
  \/ \E c \in InFlight, f \in FailPoints : ToggleLikeLikeTx(c, f)
  \/ \E c \in InFlight : ToggleLikeCount(c)

ToggleFollowSteps ==
  \/ \E c \in InFlight, f \in FailPoints : ToggleFollowTx(c, f)
  \/ \E c \in InFlight : ToggleFollowCount(c)

\* concurrent toggleLike calls on the posts created so far
NextLike ==
  \/ \E u \in Users : CreatePost(u)
  \/ \E p \in PostIds, u \in Users : ToggleLikeFindLike(p, u, FALSE)
  \/ ToggleLikeSteps

SpecLike == Init /\ [][NextLike]_vars

\* concurrent toggleLike calls, one of them observed from its start to its return
NextLikeCount ==
  \/ \E u \in Users : CreatePost(u)
  \/ \E p \in PostIds, u \in Users, observe \in BOOLEAN : ToggleLikeFindLike(p, u, observe)
  \/ ToggleLikeSteps

SpecLikeCount == Init /\ [][NextLikeCount]_vars

\* toggleLike calls one after the other, with one pair of consecutive calls observed
NextPair ==
  \/ \E u \in Users : CreatePost(u)
  \/ \E p \in PostIds, u \in Users, observe \in BOOLEAN : calls = EmptyBag /\ ToggleLikeFindLike(p, u, observe)
  \/ ToggleLikeSteps

SpecPair == Init /\ [][NextPair]_vars

\* concurrent follow requests through the use case
NextFollow ==
  \/ \E u \in Users, v \in Users : FollowUserExecute(u, v)
  \/ ToggleFollowSteps

SpecFollow == Init /\ [][NextFollow]_vars

\* concurrent createComment calls on the posts created so far
NextComment ==
  \/ \E u \in Users : CreatePost(u)
  \/ \E p \in PostIds, u \in Users : CreateCommentFindPost(p, u)
  \/ \E c \in InFlight, f \in FailPoints : CreateCommentTx(c, f)

SpecComment == Init /\ [][NextComment]_vars

\* every operation, one call after the other: a call starts when none is in flight
NextSeq ==
  \/ \E u \in Users : CreatePost(u)
  \/ \E p \in PostIds, u \in Users : calls = EmptyBag /\ ToggleLikeFindLike(p, u, FALSE)
  \/ ToggleLikeSteps
  \/ \E u \in Users, v \in Users : calls = EmptyBag /\ FollowUserExecute(u, v)
  \/ ToggleFollowSteps
  \/ \E p \in PostIds, u \in Users : calls = EmptyBag /\ CreateCommentFindPost(p, u)
  \/ \E c \in InFlight, f \in FailPoints : CreateCommentTx(c, f)

SpecSeq == Init /\ [][NextSeq]_vars

\* every operation, calls interleaving at their awaits
Next ==
  \/ \E u \in Users : CreatePost(u)
  \/ \E p \in PostIds, u \in Users : ToggleLikeFindLike(p, u, FALSE)
  \/ ToggleLikeSteps
  \/ \E u \in Users, v \in Users : FollowUserExecute(u, v)
  \/ ToggleFollowSteps
  \/ \E p \in PostIds, u \in Users : CreateCommentFindPost(p, u)
  \/ \E c \in InFlight, f \in FailPoints : CreateCommentTx(c, f)

Spec == Init /\ [][Next]_vars

\* createPaginatedResult on every list of at most MaxItems rows and every limit
InitPaginate ==
  /\ InitStore
  /\ InitNoAction
  /\ InitNoMore
  /\ InitNoThrow
  /\ InitNoFeed
  /\ InitNoLimiter
  /\ items \in Lists(ItemIds, MaxItems)
  /\ limit \in 1..MaxLimit
  /\ result = NoResult

NextPaginate == Paginate

SpecPaginate == InitPaginate /\ [][NextPaginate]_vars

\* a client walks the feed page by page; the feed holds at most MaxItems posts
\* and nothing is created or deleted meanwhile
InitFeed ==
  /\ InitStore
  /\ InitNoAction
  /\ InitNoMore
  /\ InitNoThrow
  /\ InitNoLimiter
  /\ items = <<>>
  /\ result = NoResult
  /\ limit \in 1..MaxLimit
  /\ feedPosts \in UNION {[1..n -> CreationTimes] : n \in 0..MaxItems}
  /\ cursor = NoCursor
  /\ seen = <<>>
  /\ pageLens = <<>>
  /\ feedDone = FALSE

NextFeed == GetFeed

SpecFeed == InitFeed /\ [][NextFeed]_vars

\* a user's Like rows, one per liked post, created at times that may coincide,
\* walked from no cursor with a fixed page size
InitLiked ==
  /\ InitStore
  /\ InitNoAction
  /\ InitNoThrow
  /\ InitNoLimiter
  /\ items = <<>>
  /\ result = NoResult
  /\ limit \in 1..MaxLimit
  /\ feedPosts = <<>>
  /\ \E n \in 0..MaxItems, stamps \in [1..MaxItems -> CreationTimes] :
       likedRows = [id \in {LikeRowId(i) : i \in 1..n} |->
                      [postId |-> id - MaxItems, createdAt |-> stamps[id - MaxItems]]]
  /\ cursor = NoCursor
  /\ seen = <<>>
  /\ pageLens = <<>>
  /\ feedDone = FALSE
  /\ InitNoSignUp
  /\ InitNoNotif

NextLiked == GetUserLikedPosts

SpecLiked == InitLiked /\ [][NextLiked]_vars

\* one limiter, one policy, calls for two identifiers while the clock ticks
InitLimiter ==
  /\ InitStore
  /\ InitNoAction
  /\ InitNoMore
  /\ InitNoThrow
  /\ InitNoPage
  /\ InitNoFeed
  /\ \E max \in 1..MaxRequests, win \in 1..MaxWindow : InitLimiterWith(max, win)

NextLimiter ==
  \/ Tick
  \/ \E k \in Keys : Limit(k)
  \/ \E k \in Keys : CheckRateLimit(k)
  \/ Cleanup

SpecLimiter == InitLimiter /\ [][NextLimiter]_vars

\* the write actions of post.action.ts, called with and without a session, by
\* callers whose rate-limit window is fresh or used up
InitAction ==
  /\ InitStore
  /\ InitNoPage
  /\ InitNoFeed
  /\ InitNoAction
  /\ InitNoMore
  /\ InitNoThrow
  /\ now = 0
  /\ maxRequests = MaxRequests
  /\ windowMs = MaxWindow
  /\ limited = NoLimitResult
  /\ checked = NoCheck
  /\ \E used \in SUBSET Keys :
       /\ storage = [k \in Keys |-> IF k \in used THEN Entry(MaxRequests, MaxWindow) ELSE NoEntry]
       /\ window = [k \in Keys |-> IF k \in used
                                     THEN [start |-> 0, calls |-> MaxRequests, successes |-> MaxRequests, opened |-> 1]
                                     ELSE NoWindow]
  /\ unswept = [storage |-> storage, limited |-> limited]

Sessions == Users \cup {NoUser}

\* one server action at a time: an action is called when none is in flight
NextAction ==
  \/ \E u \in Sessions, data \in {Content(0, 0, 0), Content(0, 1, 0)} : actionCalls = EmptyBag /\ ActionCreatePost(u, data)
  \/ \E c \in ActionsInFlight, fail \in BOOLEAN : ActionCreatePostCreate(c, fail)
  \/ \E p \in PostIds, u \in Sessions : actionCalls = EmptyBag /\ ActionToggleLike(p, u)
  \/ \E c \in ActionsInFlight : ActionToggleLikeFindLike(c)
  \/ \E c \in ActionsInFlight : ActionToggleLikeFindPost(c)
  \/ \E c \in ActionsInFlight, f \in FailPoints : ActionToggleLikeWrite(c, f)
  \/ \E p \in PostIds, u \in Sessions, valid \in BOOLEAN : actionCalls = EmptyBag /\ ActionCreateComment(p, u, valid)
  \/ \E c \in ActionsInFlight : ActionCreateCommentFindPost(c)
  \/ \E c \in ActionsInFlight, fail \in BOOLEAN : ActionCreateCommentCreate(c, fail)
  \/ \E c \in ActionsInFlight, fail \in BOOLEAN : ActionCreateCommentNotify(c, fail)

SpecAction == InitAction /\ [][NextAction]_vars

\* createPost on contents around the limits of its schema, padded with
\* whitespace or not
Contents ==
  {str \in [lead : 0..MaxPad,
            core : {0, 1, MaxContentLength - MaxPad, MaxContentLength - 1, MaxContentLength, MaxContentLength + 1},
            trail : 0..MaxPad] :
     str.core = 0 => str.trail = 0}

NextCreatePost ==
  \/ \E u \in Sessions, data \in Contents : actionCalls = EmptyBag /\ ActionCreatePost(u, data)
  \/ \E c \in ActionsInFlight, fail \in BOOLEAN : ActionCreatePostCreate(c, fail)

SpecCreatePost == InitAction /\ [][NextCreatePost]_vars

\* deletePost by authors, other users and callers without a session, calls
\* overlapping, on posts that exist or not
InitDeletePost ==
  /\ InitNoPage
  /\ InitNoFeed
  /\ InitNoLimiter
  /\ InitNoAction
  /\ InitNoMore
  /\ InitNoThrow
  /\ posts \in [PostIds -> Sessions]
  /\ likes = EmptyBag
  /\ follows = EmptyBag
  /\ comments = EmptyBag
  /\ notifications = EmptyBag
  /\ calls = EmptyBag
  /\ last = NoOutcome
  /\ lastLiked = [k \in Users \X PostIds |-> FALSE]
  /\ lastFollowing = [k \in Users \X Users |-> FALSE]
  /\ pairMon = MonOff

NextDeletePost ==
  \/ \E p \in PostIds, u \in Sessions : ActionDeletePost(p, u)
  \/ \E c \in ActionsInFlight : ActionDeletePostFindPost(c)
  \/ \E c \in ActionsInFlight, fail \in BOOLEAN : ActionDeletePostDelete(c, fail)

SpecDeletePost == InitDeletePost /\ [][NextDeletePost]_vars

\* sign-up requests, overlapping, for two addresses typed in several ways
Emails == {Email(name, upper, padded) : name \in {"", "a", "b"}, upper \in BOOLEAN, padded \in BOOLEAN}

InitSignUp ==
  /\ InitStore
  /\ InitNoPage
  /\ InitNoFeed
  /\ InitNoLimiter
  /\ InitNoAction
  /\ InitNoThrow
  /\ InitNoMore

NextSignUp ==
  \/ \E email \in Emails, hasPassword \in BOOLEAN, bodyUsername \in {NoName, "", "a"} :
       SignUp(email, hasPassword, bodyUsername)
  \/ \E c \in SignUpsInFlight : SignUpFindEmail(c)
  \/ \E c \in SignUpsInFlight : SignUpFindUsername(c)
  \/ \E c \in SignUpsInFlight, fail \in BOOLEAN : SignUpCreate(c, fail)

SpecSignUp == InitSignUp /\ [][NextSignUp]_vars

\* GET notifications requests, overlapping, while notifications are created
InitNotif ==
  /\ InitStore
  /\ InitNoPage
  /\ InitNoFeed
  /\ InitNoLimiter
  /\ InitNoAction
  /\ InitNoMore
  /\ InitNoThrow

NextNotif ==
  \/ \E u \in Users : Notify(u)
  \/ \E method \in {"GET", "POST"}, u \in Sessions : Handler(method, u)
  \/ \E c \in FetchesInFlight, fail \in BOOLEAN : HandlerFindMany(c, fail)
  \/ \E c \in FetchesInFlight, fail \in BOOLEAN : HandlerUpdateMany(c, fail)

SpecNotif == InitNotif /\ [][NextNotif]_vars

\* handleError on every thrown value
InitHandleError ==
  /\ InitStore
  /\ InitNoPage
  /\ InitNoFeed
  /\ InitNoLimiter
  /\ InitNoAction
  /\ InitNoMore
  /\ thrown \in ThrownValues
  /\ envelope = NoEnvelope

NextHandleError == HandleError

SpecHandleError == InitHandleError /\ [][NextHandleError]_vars

\* ---------------------------------------------------------------- properties
Liked(userId, postId) == CountWhere(likes, LikeKey(userId, postId)) > 0

LikeNotifications(table, postId, creatorId) ==
  CountWhere(table, [type |-> "LIKE", postId |-> postId, creatorId |-> creatorId])

Following(followerId, followingId) == CountWhere(follows, FollowKey(followerId, followingId)) > 0

FollowNotifications(followerId, followingId) ==
  CountWhere(notifications, [type |-> "FOLLOW", userId |-> followingId, creatorId |-> followerId])

CommentNotifications(postId, creatorId) ==
  CountWhere(notifications, [type |-> "COMMENT", postId |-> postId, creatorId |-> creatorId])

\* C1: in every reachable state, whatever write failed and however toggleLike
\* calls interleaved, a user other than the post's author has a Like row on the
\* post exactly when a LIKE notification of that user for that post exists.
C1_LikeIffNotification ==
  \A u \in Users, p \in PostIds :
    (posts[p] # NoUser /\ posts[p] # u) =>
      (Liked(u, p) <=> LikeNotifications(notifications, p, u) > 0)

\* a Like with its notification is in the store right after a toggleLike
\* transaction failed in the store
C1_Witness ==
  /\ last.op = "toggleLike"
  /\ last.error = StoreFailure
  /\ \E u \in Users, p \in PostIds :
       posts[p] \notin {NoUser, u} /\ Liked(u, p) /\ LikeNotifications(notifications, p, u) = 1

\* C2: every toggleLike call on an existing post that the store did not fail
\* ends having flipped the pair's state, also when calls for the same pair run
\* concurrently: it never ends with an error of its own.
C2_EveryCallFlips ==
  (last.op = "toggleLike" /\ last.error \notin {PostNotFound, StoreFailure}) => last.error = NoError

C4_TwoTogglesRestore ==
  pairMon.phase = "done" =>
    /\ pairMon.liked1 # pairMon.liked2
    /\ pairMon.likedEnd = pairMon.liked0
    /\ pairMon.count2 = pairMon.count0

\* a pair of calls was observed to the end on a post that was liked before
C4_Witness == pairMon.phase = "done" /\ pairMon.liked0 /\ pairMon.count0 > 0

\* C5: a step that removes the Like row of (userId, postId) leaves no LIKE
\* notification of that user for that post.
C5_UnlikeRemovesNotification ==
  [][\A u \in Users, p \in PostIds :
       (Liked(u, p) /\ CountWhere(likes', LikeKey(u, p)) = 0) => LikeNotifications(notifications', p, u) = 0]_vars

\* an unlike of another user's post has committed and is about to return
C5_Witness ==
  \E c \in InFlight :
    /\ c.op = "toggleLike" /\ c.pc = "count" /\ c.existing
    /\ posts[c.postId] # c.userId
    /\ ~Liked(c.userId, c.postId)
    /\ LikeNotifications(notifications, c.postId, c.userId) = 0

\* C6: no notification is addressed to its own creator.
C6_NoSelfNotification == \A n \in BagToSet(notifications) : n.creatorId # n.userId

\* a user has liked and commented on their own post, and a self-follow was refused
C6_Witness ==
  /\ \E u \in Users, p \in PostIds :
       posts[p] = u /\ Liked(u, p) /\ CountWhere(comments, [postId |-> p, authorId |-> u]) > 0
  /\ last = Outcome("followUser", CannotFollowYourself, FALSE)

\* C7: the error toggleLike throws for a missing post is a NotFoundError, which
\* normalizes to code NOT_FOUND with status 404.
C7_MissingPostIsNotFound ==
  (last.op = "toggleLike" /\ last.error = PostNotFound) =>
    /\ last.error.class = "NotFoundError"
    /\ handleError(last.error).code = "NOT_FOUND"
    /\ handleError(last.error).statusCode = 404

\* C8: for followerId # followingId a Follows row exists exactly when its FOLLOW
\* notification exists, and exactly when the toggleFollow of that pair that
\* committed last returns following = true.
C8_FollowIffNotification ==
  \A f \in Users, g \in Users :
    f # g =>
      /\ Following(f, g) <=> FollowNotifications(f, g) > 0
      /\ Following(f, g) <=> lastFollowing[<<f, g>>]

\* a follow with its notification is in the store right after a toggleFollow
\* transaction failed in the store
C8_Witness ==
  /\ last.op = "toggleFollow"
  /\ last.error = StoreFailure
  /\ \E f \in Users, g \in Users : f # g /\ Following(f, g) /\ FollowNotifications(f, g) = 1

\* C9: a follow request of a user for themselves never reaches the repository:
\* no toggleFollow call for it is in flight, no Follows row and no notification
\* of a user for themselves exists, and the request fails with "Cannot follow yourself".
C9_SelfFollowRejected ==
  /\ \A c \in InFlight : c.op = "toggleFollow" => c.userId # c.followingId
  /\ \A u \in Users : ~Following(u, u) /\ FollowNotifications(u, u) = 0
  /\ last.op = "followUser" => last.error.message = "Cannot follow yourself"

\* a self-follow was refused while another follow request is in the repository
C9_Witness ==
  /\ last = Outcome("followUser", CannotFollowYourself, FALSE)
  /\ \E c \in InFlight : c.op = "toggleFollow"

\* C10: comments exist only on existing posts; a commenter other than the
\* post's author has as many COMMENT notifications on the post as comments,
\* and the author has none, whatever write failed.
C10_CommentWithNotification ==
  \A p \in PostIds, u \in Users :
    /\ posts[p] = NoUser => CountWhere(comments, [postId |-> p]) = 0
    /\ posts[p] \notin {NoUser, u} =>
         CountWhere(comments, [postId |-> p, authorId |-> u]) = CommentNotifications(p, u)
    /\ posts[p] = u => CommentNotifications(p, u) = 0

\* a comment with its notification is in the store right after a createComment
\* transaction failed in the store
C10_Witness ==
  /\ last = Outcome("createComment", StoreFailure, FALSE)
  /\ \E p \in PostIds, u \in Users :
       posts[p] \notin {NoUser, u} /\ CommentNotifications(p, u) = 1

C12_ShortListUnchanged ==
  (result # NoResult /\ Len(items) <= limit) =>
    result = PaginatedResult(items, NoCursor, FALSE)

\* a list of exactly limit rows was paginated
C12_Witness == result # NoResult /\ Len(items) = limit /\ result.items = items

\* C13: a traversal of getFeed from no cursor to hasNextPage = false, with no
\* post created or deleted meanwhile, returns every post exactly once, in
\* creation-time-descending order, and every page but the last holds exactly
\* limit posts.
C13_TraversalExact ==
  feedDone =>
    /\ Len(seen) = Len(feedPosts)
    /\ {seen[i] : i \in 1..Len(seen)} = DOMAIN feedPosts
    /\ \A a \in 1..Len(seen), b \in 1..Len(seen) : a < b => feedPosts[seen[a]] >= feedPosts[seen[b]]
    /\ \A i \in 1..(Len(pageLens) - 1) : pageLens[i] = limit

\* C14: of the n limit calls made for one identifier inside one window, in
\* whatever order they run, exactly min(n, maxRequests) succeed.
C14_NoOverAdmission ==
  \A k \in Keys :
    window[k].successes = IF window[k].calls < maxRequests THEN window[k].calls ELSE maxRequests

\* more calls than maxRequests were made in one window of an identifier
C14_Witness ==
  \E k \in Keys :
    /\ window[k].calls = maxRequests + MaxDenied
    /\ window[k].successes = maxRequests
    /\ limited.identifier = k /\ ~limited.success

\* C15: for one identifier under a policy with maxRequests = M, the k-th limit
\* call inside a window succeeds with remaining = M - k for k <= M, every later
\* call of the window fails with remaining = 0, and the first call after the
\* window has elapsed succeeds with remaining = M - 1 and opens a window that
\* ends windowMs after that call.
C15_CountsDownThenDenies ==
  limited # NoLimitResult =>
    LET k == limited.identifier
        w == window[k]
    IN /\ w.calls <= maxRequests => (limited.success /\ limited.remaining = maxRequests - w.calls)
       /\ w.calls > maxRequests => (~limited.success /\ limited.remaining = 0)
       /\ limited.resetAt = w.start + windowMs
       /\ storage[k] # NoEntry => storage[k].resetAt = w.start + windowMs
       /\ w.calls = 1 => (limited.success /\ limited.remaining = maxRequests - 1)

\* the first call after an elapsed window has just opened a second window
C15_Witness ==
  /\ limited.success
  /\ limited.remaining = maxRequests - 1
  /\ window[limited.identifier].opened = 2
  /\ window[limited.identifier].calls = 1
  /\ window[limited.identifier].start = now
  /\ storage[limited.identifier] = Entry(1, now + windowMs)

\* C16: a limit call for one identifier leaves the stored count and resetAt of
\* every other identifier as they were, and the first call for an identifier
\* succeeds with remaining = maxRequests - 1 also when another identifier has
\* exhausted its limit.
C16_OtherIdentifiersUntouched ==
  [][\A k \in Keys :
       Limit(k) =>
         /\ \A j \in Keys \ {k} : storage'[j] = storage[j]
         /\ (window[k].opened = 0 /\ \E j \in Keys \ {k} : Exhausted(j)) =>
              (limited'.success /\ limited'.remaining = maxRequests - 1)]_vars

\* the first call for an identifier succeeded while the other identifier is exhausted
C16_Witness ==
  \E k \in Keys, j \in Keys :
    /\ j # k
    /\ Exhausted(j)
    /\ window[j].calls > maxRequests
    /\ limited.identifier = k /\ limited.success /\ limited.remaining = maxRequests - 1
    /\ window[k].opened = 1 /\ window[k].calls = 1

\* C17: when the limiter denies the call, checkRateLimit raises a
\* RateLimitExceeded failure: the error normalizes through handleError to code
\* RATE_LIMIT_EXCEEDED with statusCode 429, and no denied call returns.
C17_DenialIsRateLimitExceeded ==
  /\ checked.denied => checked.state = "threw"
  /\ checked.state = "threw" =>
       /\ handleError(checked.error).code = "RATE_LIMIT_EXCEEDED"
       /\ handleError(checked.error).statusCode = 429

\* C18: createPost, toggleLike and createComment called without an
\* authenticated session return a failure envelope {success: false, error}
\* whose error says Unauthorized, and write nothing to the store.
C18_NoSessionIsUnauthorized ==
  (acted # Unanswered /\ acted.userId = NoUser) =>
    /\ acted.kind = "envelope"
    /\ ~acted.success
    /\ acted.error = "Unauthorized"
    /\ ~acted.wrote

\* C19: a write action whose caller the limiter denies returns a failure
\* envelope and creates or deletes no Post, Like, Comment or Notification row.
C19_DeniedCallerWritesNothing ==
  /\ \A c \in ActionsInFlight : c.denied => ~c.wrote
  /\ acted.denied => (acted.kind = "envelope" /\ ~acted.success /\ ~acted.wrote)

C21_AcceptsIffTrimmedWithinLimits ==
  LET Acceptable(str) == Length(trim(str)) >= 1 /\ Length(trim(str)) <= MaxContentLength
  IN /\ \A c \in ActionsInFlight : (c.op = "createPost" /\ c.pc = "create") => Acceptable(c.data)
     /\ (acted.op = "createPost" /\ acted.kind = "envelope") =>
          /\ (acted.pc = "enter") <=> ~Acceptable(acted.data)
          /\ ~Acceptable(acted.data) => (~acted.success /\ ~acted.wrote)

\* C22: deletePost removes a post only when the caller is its author: a call
\* by anyone else, a caller without a session included, ends with a failure
\* envelope and leaves the post in place, and no post disappears except
\* through a call of its author.
C22_OnlyAuthorDeletes ==
  [][/\ \A c \in ActionsInFlight :
          (c.op = "deletePost" /\ actionCalls' = ActionSettle(c) /\ posts[c.postId] # c.userId) =>
            /\ acted'.kind = "envelope"
            /\ ~acted'.success
            /\ acted'.error = "Failed to delete post"
            /\ posts' = posts
     /\ \A p \in PostIds :
          (posts[p] # NoUser /\ posts'[p] = NoUser) =>
            \E c \in ActionsInFlight :
              /\ c.op = "deletePost" /\ c.postId = p /\ c.userId = posts[p]
              /\ actionCalls' = ActionSettle(c)]_vars

\* a caller who is not the author was refused and the post is still there
C22_Witness ==
  /\ acted.op = "deletePost"
  /\ ~acted.success
  /\ posts[acted.postId] \notin {NoUser, acted.userId}

\* C23: the likeCount toggleLike returns is the number of Like rows of the
\* post at the moment the call's own transaction committed, also while other
\* users toggle their likes on the post.
C23_LikeCountAsOfCommit ==
  [][\A c \in InFlight :
       (c.op = "toggleLike" /\ c.observed /\ ToggleLikeCount(c)) => LikeCount(likes, c.postId) = c.atCommit]_vars

\* C24: whatever calls of the toggleLike server action users have made on
\* other users' posts, there is at most one LIKE notification per (creatorId,
\* postId), and none while that user's Like row for the post is absent.
C24_LikeNotificationFollowsLike ==
  actionCalls = EmptyBag =>
    \A u \in Users, p \in PostIds :
      LET n == CountWhere(notifications, [type |-> "LIKE", creatorId |-> u, postId |-> p])
      IN /\ n <= 1
         /\ CountWhere(likes, LikeKey(u, p)) = 0 => n = 0

\* C25: the createComment server action answers {success: false} only when
\* it persisted no Comment row: a failure while creating the COMMENT
\* notification does not leave the comment stored without its notification.
C25_FailureStoresNoComment ==
  (acted.op = "createComment" /\ acted.kind = "envelope" /\ ~acted.success) => ~acted.wrote

\* C26: the nextCursor getUserLikedPosts returns with a page identifies the
\* last row of that page in the collection the next query pages over, so that
\* a traversal passing it back returns every liked post once, none skipped.
C26_LikedCursorContinues ==
  /\ (cursor # NoCursor) =>
       /\ cursor \in DOMAIN likedRows
       /\ likedRows[cursor].postId = seen[Len(seen)]
  /\ feedDone =>
       /\ Len(seen) = Cardinality(DOMAIN likedRows)
       /\ {seen[i] : i \in 1..Len(seen)} = {likedRows[id].postId : id \in DOMAIN likedRows}

\* C27: a limit call that is denied leaves the identifier's stored count and
\* resetAt as they were and returns the stored resetAt, so the window of an
\* identifier always ends windowMs after the call that opened it, however
\* many denied calls follow.
C27_DeniedCallLeavesEntry ==
  /\ [][\A k \in Keys :
          ((Limit(k) \/ CheckRateLimit(k)) /\ ~limited'.success) =>
            /\ storage[k] # NoEntry
            /\ storage'[k] = storage[k]
            /\ limited'.resetAt = storage[k].resetAt]_vars
  /\ [](\A k \in Keys : storage[k] # NoEntry => storage[k].resetAt = window[k].start + windowMs)

\* two calls in a row were denied in one window of an identifier
C27_Witness ==
  \E k \in Keys :
    /\ limited.identifier = k /\ ~limited.success
    /\ window[k].calls >= maxRequests + 2
    /\ storage[k].count = maxRequests

\* C28: a sign-up request whose email is in use is answered with status 409
\* and creates no second User row, also when two requests for the same email
\* overlap; the emails of the User rows are unique in every state.
C28_DuplicateEmailIs409 ==
  /\ [][\A c \in SignUpsInFlight :
          (signUps' = SignUpSettle(c) /\ EmailInUse(users, c.email)) =>
            (responded'.status = 409 /\ users' = users)]_vars
  /\ [](\A u \in users, v \in users : u.email = v.email => u = v)

\* C29: the periodic sweep cannot be observed through limit: over every
\* sequence of limit calls and clock advances, each call returns what it
\* returns from a limiter that is never swept, and the sweep removes no entry
\* whose window is still active (now <= resetAt).
C29_CleanupUnobservable ==
  /\ [](limited = unswept.limited)
  /\ [][Cleanup =>
          \A k \in Keys : (storage[k] # NoEntry /\ now <= storage[k].resetAt) => storage'[k] = storage[k]]_vars

\* a call was answered after the sweep had removed its identifier's expired
\* entry, which the unswept limiter still holds
C29_Witness ==
  \E k \in Keys :
    /\ limited.identifier = k
    /\ window[k].opened = 2 /\ window[k].calls = 1
    /\ \E j \in Keys : storage[j] = NoEntry /\ unswept.storage[j] # NoEntry

\* C30: the GET notifications handler marks as read only notifications that
\* are in the response it returns, so a notification created for the user
\* after the handler's fetch stays unread, and the unreadCount it returns is
\* the number of returned notifications that were unread when it fetched them.
C30_MarksOnlyWhatItReturns ==
  /\ [][\A id \in DOMAIN inbox :
          (~inbox[id].read /\ inbox'[id].read) =>
            /\ served'.status = 200
            /\ served'.userId = inbox[id].userId
            /\ [id |-> id, read |-> FALSE] \in served'.notifications]_vars
  /\ [](served.unreadCount = Cardinality({n \in served.notifications : ~n.read}))

\* a request has answered with unread notifications and marked them, while a
\* notification created for the same user after its fetch is still unread
C30_Witness ==
  /\ served.status = 200
  /\ served.unreadCount > 0
  /\ \A n \in served.notifications : inbox[n.id].read
  /\ \E id \in DOMAIN inbox :
       /\ inbox[id].userId = served.userId
       /\ ~inbox[id].read
       /\ \A n \in served.notifications : n.id < id

====
